---- MODULE Spec2Model ----
(***************************************************************************)
(* LinkedIn OAuth2 authorization-code callback handler                     *)
(* (src/app/api/linkedin/callback/route.ts, GET).                          *)
(*                                                                         *)
(* Each element of Procs is one invocation of GET.  An invocation runs     *)
(* synchronously up to its next await; every action below is one such      *)
(* synchronous segment, together with the answer of the awaited call.      *)
(* The 'profiles' table, the clock and the console are shared.             *)
(***************************************************************************)
EXTENDS Naturals, Integers, Sequences, FiniteSets, TLC

VARIABLES frame, store, now, authUrls

vars == <<frame, store, now, authUrls>>

(***************************************************************************)
(* JavaScript values.  A string is a sequence of chunks: a chunk is either *)
(* a run of URI-unreserved characters or one single reserved character.    *)
(***************************************************************************)
NULL == [t |-> "null"]
UNDEF == [t |-> "undefined"]
Str(s) == [t |-> "string", s |-> s]
Num(n) == [t |-> "number", n |-> n]
NaN == [t |-> "NaN"]

\* JavaScript truthiness, as used by if (error), if (!code), if (user),
\* if (dbError) and the || operator.
Truthy(v) ==
    CASE v.t = "string" -> v.s # <<>>
      [] v.t = "number" -> v.n # 0
      [] v.t \in {"null", "undefined", "NaN"} -> FALSE
      [] OTHER -> TRUE

\* Template-literal interpolation ${v}.
Interpolate(v) ==
    CASE v.t = "string" -> v.s
      [] v.t = "null" -> <<"null">>
      [] v.t = "undefined" -> <<"undefined">>
      [] OTHER -> <<"[object Object]">>

\* encodeURIComponent: unreserved runs are kept, a reserved character is
\* replaced by its percent escape.
EncodeChunk(c) ==
    CASE c = " " -> "%20"
      [] c = "&" -> "%26"
      [] c = "=" -> "%3D"
      [] OTHER -> c

encodeURIComponent(s) == [i \in 1..Len(s) |-> EncodeChunk(s[i])]

\* decodeURIComponent, the inverse the settings page applies to msg.
DecodeChunk(c) ==
    CASE c = "%20" -> " "
      [] c = "%26" -> "&"
      [] c = "%3D" -> "="
      [] OTHER -> c

decodeURIComponent(s) == [i \in 1..Len(s) |-> DecodeChunk(s[i])]

(***************************************************************************)
(* Bounds of the model.                                                    *)
(***************************************************************************)
\* The clock runs over StartClock .. StartClock + MaxClock (seconds).
MaxClock == 2
\* expires_in ranges over 1 .. MaxExpires (seconds).
MaxExpires == 2

\* Seconds in a minute: Date.setSeconds carries an overflow of the seconds
\* field into the minutes.
SecondsPerMinute == 60
\* First clock value, just before a minute boundary so that the carry of
\* setSeconds happens.
StartClock == SecondsPerMinute - 2

Procs == {"p1", "p2"}
Users == {"u1", "u2"}

(***************************************************************************)
(* Date, as far as lines 67-68 and 80 use it.  A Date is its time value in *)
(* whole seconds, or NaN (an Invalid Date).                                *)
(***************************************************************************)
getSeconds(d) == d.n % SecondsPerMinute

\* The + of getSeconds() + expiresIn: a number plus undefined is NaN.
Plus(n, v) == IF v.t = "number" THEN Num(n + v.n) ELSE NaN

\* Date.prototype.setSeconds: replaces the seconds field, carrying into the
\* minutes; a NaN argument makes the date invalid.
setSeconds(d, v) ==
    IF v.t = "number" THEN Num((d.n - getSeconds(d)) + v.n) ELSE NaN

\* Date.prototype.toISOString of a valid date: the text of its fields.
toISOString(d) ==
    [t |-> "isostring", min |-> d.n \div SecondsPerMinute,
     sec |-> d.n % SecondsPerMinute]

\* The timestamp the store reads back from the ISO text.
ParseISO(v) == v.min * SecondsPerMinute + v.sec

(***************************************************************************)
(* Inputs: the query of the callback and the answers of the collaborators. *)
(***************************************************************************)
Origins == {<<"http://localhost:3000">>, <<"https://app.example.com">>}
Codes == {NULL, Str(<<>>), Str(<<"c1">>)}
States == {NULL, Str(<<"st1">>)}
Errors == {NULL, Str(<<>>), Str(<<"access_denied">>)}
ErrorDescriptions == {NULL, Str(<<"user", " ", "declined">>)}

AccessTokens == {UNDEF, Str(<<"T1">>)}
ExpiresIns == {UNDEF} \cup {Num(e) : e \in 1..MaxExpires}
Subs == {UNDEF, Str(<<"ext-1">>)}

\* Answers of the token endpoint: the fetch rejects; the body is not JSON;
\* the body is the JSON null; the body is an object.  Only the fields the
\* handler reads on each path are varied.
TokenResponses ==
    {[kind |-> "rejected"]}
    \cup {[kind |-> "not_json", ok |-> b] : b \in BOOLEAN}
    \cup {[kind |-> "json", ok |-> b, body |-> NULL] : b \in BOOLEAN}
    \cup {[kind |-> "json", ok |-> FALSE,
           body |-> [access_token |-> UNDEF, expires_in |-> UNDEF,
                     error_description |-> d]] :
             d \in {UNDEF, Str(<<>>), Str(<<"bad", " ", "code">>)}}
    \cup {[kind |-> "json", ok |-> TRUE,
           body |-> [access_token |-> a, expires_in |-> e,
                     error_description |-> UNDEF]] :
             a \in AccessTokens, e \in ExpiresIns}

\* Answers of the userinfo endpoint.  The handler never reads the status.
ProfileResponses ==
    {[kind |-> "rejected"], [kind |-> "not_json"],
     [kind |-> "json", body |-> NULL]}
    \cup {[kind |-> "json", body |-> [sub |-> s]] : s \in Subs}

\* Answers of supabase.auth.getUser().
GetUserResponses ==
    {[kind |-> "rejected"], [kind |-> "resolved", user |-> NULL]}
    \cup {[kind |-> "resolved", user |-> [t |-> "user", id |-> u]] : u \in Users}

\* Answers of the update of 'profiles'.
UpdateResponses ==
    {[error |-> NULL],
     [error |-> [t |-> "error", message |-> <<"permission", " ", "denied">>]],
     [error |-> [t |-> "error", message |-> <<"a", "&", "b", "=", "c">>]]}

\* Messages of the errors the runtime throws.
FetchFailedMessage == <<"fetch", " ", "failed">>
JsonSyntaxMessage == <<"Unexpected", " ", "token">>
NullPropertyMessage == <<"Cannot", " ", "read", " ", "properties", " ", "of", " ", "null">>
InvalidTimeMessage == <<"Invalid", " ", "time", " ", "value">>
AuthMessage == <<"Auth", " ", "request", " ", "failed">>
DefaultExchangeMessage == <<"LinkedIn", " ", "token", " ", "exchange", " ", "failed">>

(***************************************************************************)
(* The Authorization Request Builder (src/lib/linkedin.ts).  The texts it  *)
(* encodes are sequences of character codes.                               *)
(***************************************************************************)
\* The authorization URLs built in one behaviour.
MaxUrls == 2

\* Line 5 of linkedin.ts, as an origin and a path.
LINKEDIN_CONFIG ==
    [clientId |-> <<"86j7ddjv9w7b8m">>,
     redirectUri |-> <<"http://localhost:3000", "/api/linkedin/callback">>,
     scopes |-> <<"openid", "profile", "email", "w_member_social">>]

\* The last index substring(2, 15) takes, exclusive.
NonceEnd == 15

\* What Math.random() can return, as the base-36 digits after "0." in its
\* toString(36): none for 0; one digit (0.5 is "0.i"); several; and two
\* values that differ in their fourteenth digit only.
LongDigits == <<48, 48, 48, 48, 48, 49, 50, 51, 52, 53, 54, 55, 56>>
Randoms ==
    {<<>>, <<105>>, <<52, 102>>, LongDigits \o <<97>>, LongDigits \o <<98>>}

\* Number.prototype.toString(36) of a value in [0, 1).
toString36(r) == IF r = <<>> THEN <<48>> ELSE <<48, 46>> \o r

\* String.prototype.substring(from, to), indices from 0, to exclusive.
substring(s, from, to) ==
    SubSeq(s, from + 1, IF to < Len(s) THEN to ELSE Len(s))

\* Line 14: Math.random().toString(36).substring(2, 15).
Nonce(r) == substring(toString36(r), 2, NonceEnd)

\* The user ids the builder is called with: "u1", "u2", a text with a quote
\* and a Latin-1 letter, and a text outside Latin-1.
UserIdText(u) == IF u = "u1" THEN <<117, 49>> ELSE <<117, 50>>
UserIds == {UserIdText(u) : u \in Users} \cup {<<97, 34, 233>>, <<8364>>}

\* JSON.stringify of a string: quotes and backslashes are escaped.
RECURSIVE JsonEscape(_)
JsonEscape(s) ==
    IF s = <<>> THEN <<>>
    ELSE (IF Head(s) \in {34, 92} THEN <<92, Head(s)>> ELSE <<Head(s)>>)
         \o JsonEscape(Tail(s))

JsonString(s) == <<34>> \o JsonEscape(s) \o <<34>>

\* Lines 12-15: JSON.stringify({ userId, nonce }).
\*   {"userId":          ,"nonce":          }
JsonUserIdKey == <<123, 34, 117, 115, 101, 114, 73, 100, 34, 58>>
JsonNonceKey == <<44, 34, 110, 111, 110, 99, 101, 34, 58>>
statePayload(userId, nonce) ==
    JsonUserIdKey \o JsonString(userId) \o JsonNonceKey \o JsonString(nonce)
    \o <<125>>

\* The base64 alphabet: A-Z, a-z, 0-9, + and /.
B64Char(i) ==
    IF i < 26 THEN 65 + i
    ELSE IF i < 52 THEN 97 + (i - 26)
    ELSE IF i < 62 THEN 48 + (i - 52)
    ELSE IF i = 62 THEN 43 ELSE 47

\* base64 of a sequence of bytes, three bytes to four characters, padded
\* with '='.
RECURSIVE Base64(_)
Base64(b) ==
    IF b = <<>> THEN <<>>
    ELSE LET n == Len(b)
             v == b[1] * 65536 + (IF n >= 2 THEN b[2] ELSE 0) * 256
                  + (IF n >= 3 THEN b[3] ELSE 0)
         IN  <<B64Char(v \div 262144), B64Char((v \div 4096) % 64),
               IF n >= 2 THEN B64Char((v \div 64) % 64) ELSE 61,
               IF n >= 3 THEN B64Char(v % 64) ELSE 61>>
             \o (IF n > 3 THEN Base64(SubSeq(b, 4, n)) ELSE <<>>)

\* Line 16: btoa throws InvalidCharacterError on a character above 255.
InvalidCharacterError == [t |-> "InvalidCharacterError"]
btoa(s) ==
    IF \E i \in 1..Len(s) : s[i] > 255 THEN InvalidCharacterError
    ELSE Str(Base64(s))

\* The hexadecimal digits 0-9, A-F.
HexChar(d) == IF d < 10 THEN 48 + d ELSE 65 + (d - 10)
HexValue(c) == IF c < 58 THEN c - 48 ELSE c - 55

\* Lines 22 and 25: URLSearchParams serialises a value as a form field:
\* letters, digits and * - . _ are kept, a space becomes +, any other
\* character becomes its percent escape.
FormKept(c) ==
    \/ c \in 48..57
    \/ c \in 65..90
    \/ c \in 97..122
    \/ c \in {42, 45, 46, 95}

RECURSIVE FormEncode(_)
FormEncode(s) ==
    IF s = <<>> THEN <<>>
    ELSE (IF FormKept(Head(s)) THEN <<Head(s)>>
          ELSE IF Head(s) = 32 THEN <<43>>
          ELSE <<37, HexChar(Head(s) \div 16), HexChar(Head(s) % 16)>>)
         \o FormEncode(Tail(s))

\* Lines 9-26: the parameters of the authorization URL as url.toString()
\* spells them, for the value r of Math.random().  Only the state goes
\* through the form encoding here; the other values are kept as texts.
generateLinkedInAuthUrl(userId, r) ==
    LET state == btoa(statePayload(userId, Nonce(r))) IN
    IF state = InvalidCharacterError THEN InvalidCharacterError
    ELSE [t |-> "url",
          response_type |-> <<"code">>,
          client_id |-> LINKEDIN_CONFIG.clientId,
          redirect_uri |-> LINKEDIN_CONFIG.redirectUri,
          state |-> FormEncode(state.s),
          scope |-> LINKEDIN_CONFIG.scopes]

(***************************************************************************)
(* Reading the state parameter back: the form decoding of the query, atob, *)
(* JSON.parse.                                                             *)
(***************************************************************************)
RECURSIVE FormDecode(_)
FormDecode(s) ==
    IF s = <<>> THEN <<>>
    ELSE IF Head(s) = 37 /\ Len(s) >= 3
    THEN <<HexValue(s[2]) * 16 + HexValue(s[3])>> \o FormDecode(SubSeq(s, 4, Len(s)))
    ELSE (IF Head(s) = 43 THEN <<32>> ELSE <<Head(s)>>) \o FormDecode(Tail(s))

B64Value(c) ==
    IF c \in 65..90 THEN c - 65
    ELSE IF c \in 97..122 THEN (c - 97) + 26
    ELSE IF c \in 48..57 THEN (c - 48) + 52
    ELSE IF c = 43 THEN 62
    ELSE IF c = 47 THEN 63 ELSE 0

\* atob: four characters to three bytes, less the padding.
RECURSIVE atob(_)
atob(s) ==
    IF Len(s) < 4 THEN <<>>
    ELSE LET v == B64Value(s[1]) * 262144 + B64Value(s[2]) * 4096
                  + B64Value(s[3]) * 64 + B64Value(s[4])
             bytes == <<v \div 65536, (v \div 256) % 256, v % 256>>
             n == IF s[3] = 61 THEN 1 ELSE IF s[4] = 61 THEN 2 ELSE 3
         IN  SubSeq(bytes, 1, n) \o atob(SubSeq(s, 5, Len(s)))

\* A JSON string read from index i, just after its opening quote: its value
\* and the index after its closing quote.
RECURSIVE ReadString(_, _)
ReadString(s, i) ==
    IF i > Len(s) THEN [v |-> <<>>, next |-> i]
    ELSE IF s[i] = 34 THEN [v |-> <<>>, next |-> i + 1]
    ELSE IF s[i] = 92 /\ i < Len(s)
    THEN LET r == ReadString(s, i + 2) IN [v |-> <<s[i + 1]>> \o r.v, next |-> r.next]
    ELSE LET r == ReadString(s, i + 1) IN [v |-> <<s[i]>> \o r.v, next |-> r.next]

\* JSON.parse of the text of an object {"userId": ..., "nonce": ...}.
JsonParse(s) ==
    LET k == Len(JsonUserIdKey)
        a == ReadString(s, k + 2)
        b == ReadString(s, a.next + Len(JsonNonceKey) + 1)
    IN  [userId |-> a.v, nonce |-> b.v]

\* The object a state parameter decodes to.
DecodeState(param) == JsonParse(atob(FormDecode(param)))

(***************************************************************************)
(* The state.                                                              *)
(*   frame[p]  the locals and the position of invocation p of GET, with    *)
(*             the calls it has issued, its console output and its result; *)
(*   store     the 'profiles' table: the rows that exist, by user_id;      *)
(*   now       the wall clock, in seconds;                                 *)
(*   authUrls  the authorization URLs built so far, each with the userId   *)
(*             it was built for.                                           *)
(***************************************************************************)
IdleFrame ==
    [pc |-> "idle",
     origin |-> <<>>, code |-> NULL, state |-> NULL, error |-> NULL,
     error_description |-> NULL,
     tokenRequest |-> UNDEF, tokenResponse |-> UNDEF, tokenReceivedAt |-> UNDEF,
     accessToken |-> UNDEF, expiresIn |-> UNDEF,
     profileRequest |-> UNDEF, profileResponse |-> UNDEF, linkedinId |-> UNDEF,
     createdAt |-> UNDEF, expiresAt |-> UNDEF,
     user |-> UNDEF, update |-> UNDEF, dbError |-> UNDEF,
     calls |-> <<>>, warned |-> FALSE, logged |-> UNDEF,
     thrown |-> UNDEF, redirect |-> UNDEF]

\* A row of 'profiles', as far as the handler writes it.
NewRow ==
    [linkedin_token |-> NULL, linkedin_profile_id |-> NULL,
     linkedin_connected |-> FALSE, linkedin_token_expires_at |-> NULL]

ConnectedRow ==
    [linkedin_token |-> Str(<<"T0">>), linkedin_profile_id |-> Str(<<"ext-0">>),
     linkedin_connected |-> TRUE,
     linkedin_token_expires_at |-> toISOString(Num(StartClock))]

\* The tables the handler can find: each user has no row, a row that was
\* never connected, or a row connected by an earlier flow.
InitialStores ==
    UNION {[S -> {NewRow, ConnectedRow}] : S \in SUBSET Users}

Init ==
    /\ frame = [p \in Procs |-> IdleFrame]
    /\ store \in InitialStores
    /\ now = StartClock
    /\ authUrls = <<>>

(***************************************************************************)
(* The redirects of the handler: the origin and the parameters after       *)
(* /#/app/settings?                                                        *)
(***************************************************************************)
Redirect(origin, query) == [t |-> "redirect", origin |-> origin, query |-> query]

\* Line 21: the error and its description are interpolated as they are.
ProviderErrorRedirect(f) ==
    Redirect(f.origin, [error |-> Interpolate(f.error),
                        msg |-> Interpolate(f.error_description)])

\* Line 25.
MissingCodeRedirect(f) == Redirect(f.origin, [error |-> <<"missing_code">>])

\* Line 91.
SuccessRedirect(f) == Redirect(f.origin, [success |-> <<"true">>])

\* Line 95.
ExchangeFailedRedirect(f, err) ==
    Redirect(f.origin, [error |-> <<"exchange_failed">>,
                        msg |-> encodeURIComponent(err.message)])

Error(message) == [t |-> "error", message |-> message]

\* Faulty variant of Catch: the error is thrown on to the caller.
Rethrow(f, err) == [f EXCEPT !.pc = "fault", !.thrown = err]

\* Lines 93-96, the catch block: log the error, answer with the redirect.
Catch(f, err) ==
    [f EXCEPT !.pc = "done", !.thrown = err, !.logged = err,
              !.redirect = ExchangeFailedRedirect(f, err)]

\* Faulty variant of HasProviderError: the error is passed over when a code
\* came with it.
HasProviderErrorAndNoCode(f) == Truthy(f.error) /\ ~Truthy(f.code)

\* Line 20: if (error).
HasProviderError(f) == Truthy(f.error)

\* Faulty variant of CodeMissing: the code is never looked at.
CodeNeverMissing(f) == FALSE

\* Line 24: if (!code).
CodeMissing(f) == ~Truthy(f.code)

\* Lines 40-46: the body of the token request.
TokenRequestBody(f) ==
    [grant_type |-> <<"authorization_code">>, code |-> f.code,
     redirect_uri |-> f.origin \o <<"/api/linkedin/callback">>]

\* Lines 14-47: from the entry of GET to the first await.  The environment
\* variables are taken to be set, so that createClient returns.
Begin(f) ==
    IF HasProviderError(f)
    THEN [f EXCEPT !.pc = "done", !.redirect = ProviderErrorRedirect(f)]
    ELSE IF CodeMissing(f)
    THEN [f EXCEPT !.pc = "done", !.redirect = MissingCodeRedirect(f)]
    ELSE [f EXCEPT !.pc = "awaitToken", !.tokenRequest = TokenRequestBody(f),
                   !.calls = Append(f.calls, "token")]

\* Faulty variant of ExchangeRefused: the status is never looked at.
ExchangeNeverRefused(resp) == FALSE

\* Lines 50-52: the exchange is refused when the status is not a success.
ExchangeRefused(resp) == ~resp.ok

\* Line 51: the message of the error thrown on a refused exchange.
ExchangeErrorMessage(tokenData) ==
    IF Truthy(tokenData.error_description)
    THEN tokenData.error_description.s
    ELSE DefaultExchangeMessage

\* Lines 58-60: the userinfo request carries the token as it is.
ProfileRequest(accessToken) ==
    [authorization |-> <<"Bearer", " ">> \o Interpolate(accessToken)]

\* Lines 37-60: the answer of the token endpoint, up to the second await.
\* t is the time at which the answer was read.
AfterToken(f, resp, t) ==
    LET g == [f EXCEPT !.tokenResponse = resp, !.tokenReceivedAt = Num(t)] IN
    IF resp.kind = "rejected" THEN Catch(g, Error(FetchFailedMessage))
    ELSE IF resp.kind = "not_json" THEN Catch(g, Error(JsonSyntaxMessage))
    ELSE IF ExchangeRefused(resp)
    THEN IF resp.body = NULL
         THEN Catch(g, Error(NullPropertyMessage))
         ELSE Catch(g, Error(ExchangeErrorMessage(resp.body)))
    ELSE IF resp.body = NULL THEN Catch(g, Error(NullPropertyMessage))
    ELSE [g EXCEPT !.pc = "awaitProfile",
                   !.accessToken = resp.body.access_token,
                   !.expiresIn = resp.body.expires_in,
                   !.profileRequest = ProfileRequest(resp.body.access_token),
                   !.calls = Append(f.calls, "profile")]

\* Lines 67-68: the expiry, from the clock at that moment.
ExpiresAt(t, expiresIn) ==
    setSeconds(Num(t), Plus(getSeconds(Num(t)), expiresIn))

\* Lines 61-71: the answer of the userinfo endpoint, up to the third await.
AfterProfile(f, resp, t) ==
    LET g == [f EXCEPT !.profileResponse = resp] IN
    IF resp.kind = "rejected" THEN Catch(g, Error(FetchFailedMessage))
    ELSE IF resp.kind = "not_json" THEN Catch(g, Error(JsonSyntaxMessage))
    ELSE IF resp.body = NULL THEN Catch(g, Error(NullPropertyMessage))
    ELSE [g EXCEPT !.pc = "awaitUser",
                   !.linkedinId = resp.body.sub,
                   !.createdAt = Num(t),
                   !.expiresAt = ExpiresAt(t, f.expiresIn),
                   !.calls = Append(f.calls, "getUser")]

\* Faulty variant of UpdateValues: the token and the profile id are swapped.
UpdateValuesSwapped(f) ==
    [linkedin_token |-> f.linkedinId,
     linkedin_profile_id |-> f.accessToken,
     linkedin_connected |-> TRUE,
     linkedin_token_expires_at |-> toISOString(f.expiresAt)]

\* Lines 76-81: the values of the update.
UpdateValues(f) ==
    [linkedin_token |-> f.accessToken,
     linkedin_profile_id |-> f.linkedinId,
     linkedin_connected |-> TRUE,
     linkedin_token_expires_at |-> toISOString(f.expiresAt)]

\* Faulty variant of UpdateTarget: the user named in the state parameter is
\* updated, when there is a state.
UpdateTargetFromState(f) ==
    IF Truthy(f.state)
    THEN LET named == DecodeState(FormEncode(f.state.s)).userId IN
         IF \E u \in Users : UserIdText(u) = named
         THEN CHOOSE u \in Users : UserIdText(u) = named
         ELSE f.user.id
    ELSE f.user.id

\* Line 82: .eq('user_id', user.id), the user of the session.
UpdateTarget(f) == f.user.id

\* Faulty variant of SkipPersistence: a missing session is reported as a
\* failure.
FailWithoutSession(f) == Catch(f, Error(AuthMessage))

\* Lines 85-91: no session; warn, skip the update, answer with success.
SkipPersistence(f) ==
    [f EXCEPT !.pc = "done", !.warned = TRUE, !.redirect = SuccessRedirect(f)]

\* Lines 71-91: the answer of getUser, up to the update or to the end.
AfterGetUser(f, resp) ==
    IF resp.kind = "rejected" THEN Catch(f, Error(AuthMessage))
    ELSE
    LET g == [f EXCEPT !.user = resp.user] IN
    IF Truthy(resp.user)
    THEN IF f.expiresAt = NaN
         THEN Catch(g, Error(InvalidTimeMessage))
         ELSE [g EXCEPT !.pc = "awaitUpdate",
                        !.update = [values |-> UpdateValues(g),
                                    user_id |-> UpdateTarget(g)],
                        !.calls = Append(f.calls, "update")]
    ELSE SkipPersistence(g)

\* Faulty variant of UpdateFailed: the error of the update is dropped.
UpdateNeverFailed(resp) == FALSE

\* Line 84: if (dbError).
UpdateFailed(resp) == Truthy(resp.error)

\* Faulty variant of AfterUpdate: an update that failed is sent again.
AfterUpdateRetrying(f, resp) ==
    LET g == [f EXCEPT !.dbError = resp.error] IN
    IF Truthy(resp.error)
    THEN [g EXCEPT !.calls = Append(f.calls, "update")]
    ELSE [g EXCEPT !.pc = "done", !.redirect = SuccessRedirect(g)]

\* Lines 84-91: the answer of the update.
AfterUpdate(f, resp) ==
    LET g == [f EXCEPT !.dbError = resp.error] IN
    IF UpdateFailed(resp)
    THEN Catch(g, resp.error)
    ELSE [g EXCEPT !.pc = "done", !.redirect = SuccessRedirect(g)]

(***************************************************************************)
(* The update of 'profiles' at the store.                                  *)
(***************************************************************************)
\* The request body is JSON: a value that is undefined is left out, and its
\* column keeps what it holds.
Column(old, new) == IF new = UNDEF THEN old ELSE new

Merge(row, values) ==
    [linkedin_token |-> Column(row.linkedin_token, values.linkedin_token),
     linkedin_profile_id |->
         Column(row.linkedin_profile_id, values.linkedin_profile_id),
     linkedin_connected |-> values.linkedin_connected,
     linkedin_token_expires_at |-> values.linkedin_token_expires_at]

\* Faulty variant of ApplyUpdate: an upsert, which creates the row of a user
\* who has none.
ApplyUpsert(st, upd) ==
    [u \in DOMAIN st \cup {upd.user_id} |->
        IF u = upd.user_id
        THEN Merge(IF u \in DOMAIN st THEN st[u] ELSE NewRow, upd.values)
        ELSE st[u]]

\* Faulty variant of ApplyUpdate: the filter on user_id is left out, and the
\* update changes every row.
ApplyUpdateAll(st, upd) == [u \in DOMAIN st |-> Merge(st[u], upd.values)]

\* Lines 74-82: update(values).eq('user_id', id) changes the rows that match
\* and creates none.
ApplyUpdate(st, upd) ==
    [u \in DOMAIN st |->
        IF u = upd.user_id THEN Merge(st[u], upd.values) ELSE st[u]]

(***************************************************************************)
(* The actions.                                                            *)
(***************************************************************************)
\* A request arrives: lines 14-47.
GET(p, origin, code, state, error, error_description) ==
    /\ frame[p].pc = "idle"
    /\ frame' = [frame EXCEPT ![p] =
           Begin([IdleFrame EXCEPT !.origin = origin, !.code = code,
                                   !.state = state, !.error = error,
                                   !.error_description = error_description])]
    /\ UNCHANGED <<store, now, authUrls>>

\* The token endpoint answers: lines 37-60.
TokenResponse(p, resp) ==
    /\ frame[p].pc = "awaitToken"
    /\ frame' = [frame EXCEPT ![p] = AfterToken(@, resp, now)]
    /\ UNCHANGED <<store, now, authUrls>>

\* The userinfo endpoint answers: lines 61-71.
ProfileResponse(p, resp) ==
    /\ frame[p].pc = "awaitProfile"
    /\ frame' = [frame EXCEPT ![p] = AfterProfile(@, resp, now)]
    /\ UNCHANGED <<store, now, authUrls>>

\* getUser answers: lines 71-91.
GetUserResponse(p, resp) ==
    /\ frame[p].pc = "awaitUser"
    /\ frame' = [frame EXCEPT ![p] = AfterGetUser(@, resp)]
    /\ UNCHANGED <<store, now, authUrls>>

\* The store answers the update, having applied it unless it rejects it:
\* lines 74-91.
UpdateResponse(p, resp) ==
    /\ frame[p].pc = "awaitUpdate"
    /\ frame' = [frame EXCEPT ![p] = AfterUpdate(@, resp)]
    /\ store' = IF Truthy(resp.error) THEN store
                ELSE ApplyUpdate(store, frame[p].update)
    /\ UNCHANGED <<now, authUrls>>

\* The client asks for an authorization URL: lines 9-26 of linkedin.ts.
Build(userId, r) ==
    /\ Len(authUrls) < MaxUrls
    /\ authUrls' = Append(authUrls,
           [userId |-> userId, url |-> generateLinkedInAuthUrl(userId, r)])
    /\ UNCHANGED <<frame, store, now>>

\* Time passes.
Tick ==
    /\ now < StartClock + MaxClock
    /\ now' = now + 1
    /\ UNCHANGED <<frame, store, authUrls>>

\* The provider redirects the browser to the callback.
Request(p) ==
    \E origin \in Origins, code \in Codes, state \in States,
       error \in Errors, error_description \in ErrorDescriptions :
        GET(p, origin, code, state, error, error_description)

\* An awaited call settles and the handler runs on to its next await.
Resume(p) ==
    \/ \E resp \in TokenResponses : TokenResponse(p, resp)
    \/ \E resp \in ProfileResponses : ProfileResponse(p, resp)
    \/ \E resp \in GetUserResponses : GetUserResponse(p, resp)
    \/ \E resp \in UpdateResponses : UpdateResponse(p, resp)

\* One invocation of the handler, from any table and under any answers.
Next == Tick \/ Request("p1") \/ Resume("p1")

Spec == Init /\ [][Next]_vars

\* The state parameters a callback comes with: none, or the state of a URL
\* built for a user, as the query of the callback spells it out.
StateFor(u) == Str(FormDecode(generateLinkedInAuthUrl(UserIdText(u), <<105>>).state))

StatePairs ==
    {<<NULL, StateFor("u1")>>, <<NULL, StateFor("u2")>>,
     <<StateFor("u1"), StateFor("u2")>>}

\* Two invocations that differ in their state parameter only: the same
\* query otherwise, the same answers at the same moments.
PairGET(origin, code, states, error, error_description) ==
    /\ frame["p1"].pc = "idle"
    /\ frame["p2"].pc = "idle"
    /\ frame' = [p \in Procs |->
           Begin([IdleFrame EXCEPT !.origin = origin, !.code = code,
                                   !.state = IF p = "p1" THEN states[1]
                                             ELSE states[2],
                                   !.error = error,
                                   !.error_description = error_description])]
    /\ UNCHANGED <<store, now, authUrls>>

PairTokenResponse(resp) ==
    /\ \A p \in Procs : frame[p].pc = "awaitToken"
    /\ frame' = [p \in Procs |-> AfterToken(frame[p], resp, now)]
    /\ UNCHANGED <<store, now, authUrls>>

PairProfileResponse(resp) ==
    /\ \A p \in Procs : frame[p].pc = "awaitProfile"
    /\ frame' = [p \in Procs |-> AfterProfile(frame[p], resp, now)]
    /\ UNCHANGED <<store, now, authUrls>>

PairGetUserResponse(resp) ==
    /\ \A p \in Procs : frame[p].pc = "awaitUser"
    /\ frame' = [p \in Procs |-> AfterGetUser(frame[p], resp)]
    /\ UNCHANGED <<store, now, authUrls>>

PairUpdateResponse(resp) ==
    /\ \A p \in Procs : frame[p].pc = "awaitUpdate"
    /\ frame' = [p \in Procs |-> AfterUpdate(frame[p], resp)]
    /\ store' = IF Truthy(resp.error) THEN store
                ELSE ApplyUpdate(ApplyUpdate(store, frame["p1"].update),
                                 frame["p2"].update)
    /\ UNCHANGED <<now, authUrls>>

PairRequest ==
    \E origin \in Origins, code \in Codes, states \in StatePairs,
       error \in Errors, error_description \in ErrorDescriptions :
        PairGET(origin, code, states, error, error_description)

PairResume ==
    \/ \E resp \in TokenResponses : PairTokenResponse(resp)
    \/ \E resp \in ProfileResponses : PairProfileResponse(resp)
    \/ \E resp \in GetUserResponses : PairGetUserResponse(resp)
    \/ \E resp \in UpdateResponses : PairUpdateResponse(resp)

PairNext == Tick \/ PairRequest \/ PairResume

PairSpec == Init /\ [][PairNext]_vars

\* The answers two concurrent invocations get: each its own token, its own
\* lifetime and its own profile id, so that the row tells who wrote what.
ConcTokenResponses(p) ==
    {[kind |-> "rejected"]}
    \cup {[kind |-> "json", ok |-> TRUE,
           body |-> [access_token |-> a,
                     expires_in |-> Num(IF p = "p1" THEN 1 ELSE MaxExpires),
                     error_description |-> UNDEF]] :
             a \in {UNDEF, Str(<<"T-", p>>)}}

ConcProfileResponses(p) ==
    {[kind |-> "json", body |-> [sub |-> s]] : s \in {UNDEF, Str(<<"ext-", p>>)}}

ConcRequest(p) ==
    GET(p, <<"http://localhost:3000">>, Str(<<"c1">>), NULL, NULL, NULL)

ConcResume(p) ==
    \/ \E resp \in ConcTokenResponses(p) : TokenResponse(p, resp)
    \/ \E resp \in ConcProfileResponses(p) : ProfileResponse(p, resp)
    \/ \E resp \in GetUserResponses : GetUserResponse(p, resp)
    \/ \E resp \in UpdateResponses : UpdateResponse(p, resp)

\* Two invocations at once: between two awaits of one, the other may run.
ConcNext == \E p \in Procs : ConcRequest(p) \/ ConcResume(p)

ConcSpec == Init /\ [][ConcNext]_vars

\* The builder alone, called with any user id and any value of Math.random().
BuilderNext == \E userId \in UserIds, r \in Randoms : Build(userId, r)

BuilderSpec == Init /\ [][BuilderNext]_vars

\* Every awaited call settles (with an answer or a rejection), and the event
\* loop then runs the continuation.  The code sets no timeout: a call that
\* never settles is outside this specification.
FairSpec == Spec /\ WF_vars(Resume("p1"))

(***************************************************************************)
(* Vocabulary of the properties.                                           *)
(***************************************************************************)
Done(p) == frame[p].pc = "done"

\* The redirect of p has the parameter k with the value v.
HasParam(p, k, v) ==
    /\ frame[p].redirect # UNDEF
    /\ k \in DOMAIN frame[p].redirect.query
    /\ frame[p].redirect.query[k] = v

\* p has issued the call c (token, profile, getUser, update).
Issued(p, c) == \E i \in 1..Len(frame[p].calls) : frame[p].calls[i] = c

\* A string that is there and not empty.
Populated(v) == v.t = "string" /\ v.s # <<>>

\* The token endpoint has answered p with a status and a body.
TokenAnswered(p) ==
    /\ frame[p].tokenResponse # UNDEF
    /\ frame[p].tokenResponse.kind # "rejected"

\* ... with a success status and a JSON object.
TokenSucceeded(p) ==
    /\ TokenAnswered(p)
    /\ frame[p].tokenResponse.kind = "json"
    /\ frame[p].tokenResponse.ok
    /\ frame[p].tokenResponse.body # NULL

\* The userinfo endpoint has answered p with a JSON object.
ProfileSucceeded(p) ==
    /\ frame[p].profileResponse # UNDEF
    /\ frame[p].profileResponse.kind = "json"
    /\ frame[p].profileResponse.body # NULL

\* The case of C1: access_token T, expires_in E, sub S, and a current user.
HappyCase(p) ==
    /\ TokenSucceeded(p)
    /\ Populated(frame[p].tokenResponse.body.access_token)
    /\ frame[p].tokenResponse.body.expires_in.t = "number"
    /\ ProfileSucceeded(p)
    /\ Populated(frame[p].profileResponse.body.sub)
    /\ frame[p].user # UNDEF
    /\ frame[p].user # NULL

\* The record C1 expects for the user of p.
HappyRecord(p) ==
    LET f == frame[p]
        u == f.user.id
    IN  /\ u \in DOMAIN store
        /\ store[u].linkedin_token = f.tokenResponse.body.access_token
        /\ store[u].linkedin_profile_id = f.profileResponse.body.sub
        /\ store[u].linkedin_connected = TRUE
        /\ store[u].linkedin_token_expires_at # NULL
        /\ ParseISO(store[u].linkedin_token_expires_at)
               = f.createdAt.n + f.tokenResponse.body.expires_in.n

C2_ConnectedImpliesPopulated ==
    \A u \in DOMAIN store :
        store[u].linkedin_connected =>
            (Populated(store[u].linkedin_token)
             /\ Populated(store[u].linkedin_profile_id))

(***************************************************************************)
(* C3: once the token endpoint has answered with a non-success status, the *)
(* handler is finished with error=exchange_failed and has issued neither   *)
(* the profile fetch nor the update.                                       *)
(***************************************************************************)
C3_RefusedExchangeFails ==
    \A p \in Procs :
        (TokenAnswered(p) /\ ~frame[p].tokenResponse.ok) =>
            /\ Done(p)
            /\ HasParam(p, "error", <<"exchange_failed">>)
            /\ ~Issued(p, "profile")
            /\ ~Issued(p, "update")
            /\ frame[p].update = UNDEF

\* A refused exchange that carried the provider's description.
C3_Witness ==
    \E p \in Procs :
        /\ TokenAnswered(p)
        /\ ~frame[p].tokenResponse.ok
        /\ Done(p)
        /\ HasParam(p, "msg", <<"bad", "%20", "code">>)

\* The handler has called no collaborator at all.
NoCollaboratorCalled(p) ==
    /\ frame[p].calls = <<>>
    /\ frame[p].tokenRequest = UNDEF
    /\ frame[p].profileRequest = UNDEF
    /\ frame[p].user = UNDEF
    /\ frame[p].update = UNDEF

\* The redirect of line 21: the error code and, when there is one, the
\* description of the provider.
CarriesProviderError(p) ==
    /\ Done(p)
    /\ HasParam(p, "error", Interpolate(frame[p].error))
    /\ frame[p].error_description # NULL =>
           HasParam(p, "msg", frame[p].error_description.s)

(***************************************************************************)
(* C4 as stated: whenever the query has an error parameter, with or        *)
(* without a code, the handler ends at once with a redirect carrying the   *)
(* error and its description, and calls no collaborator.                   *)
(***************************************************************************)
C4_AsStated ==
    \A p \in Procs :
        (frame[p].pc # "idle" /\ frame[p].error # NULL) =>
            (CarriesProviderError(p) /\ NoCollaboratorCalled(p))

(***************************************************************************)
(* C4 amended: the same for an error parameter that is not empty.          *)
(***************************************************************************)
C4_ProviderErrorEndsAtOnce ==
    \A p \in Procs :
        (frame[p].pc # "idle" /\ Populated(frame[p].error)) =>
            (CarriesProviderError(p) /\ NoCollaboratorCalled(p))

\* A denied authorization that came with a code.
C4_Witness ==
    \E p \in Procs :
        /\ Populated(frame[p].error)
        /\ Populated(frame[p].code)
        /\ frame[p].error_description # NULL
        /\ CarriesProviderError(p)

(***************************************************************************)
(* C5: a query with neither code nor error ends with error=missing_code,   *)
(* without any call and without a write.                                   *)
(***************************************************************************)
C5_MissingCode ==
    \A p \in Procs :
        (/\ frame[p].pc # "idle"
         /\ frame[p].code = NULL
         /\ frame[p].error = NULL)
        => (/\ Done(p)
            /\ HasParam(p, "error", <<"missing_code">>)
            /\ NoCollaboratorCalled(p))

C5_Witness ==
    \E p \in Procs :
        /\ frame[p].code = NULL
        /\ frame[p].error = NULL
        /\ Done(p)
        /\ HasParam(p, "error", <<"missing_code">>)

\* The redirect of p says success=true and nothing else.
PlainSuccess(p) ==
    /\ frame[p].redirect # UNDEF
    /\ frame[p].redirect.origin = frame[p].origin
    /\ DOMAIN frame[p].redirect.query = {"success"}
    /\ frame[p].redirect.query.success = <<"true">>

(***************************************************************************)
(* C6: when the exchange and the profile fetch went through and no current *)
(* user is resolved, the handler issues no update, warns, and ends with    *)
(* success=true; a run that resolved a user and updated the row ends with  *)
(* the very same redirect.                                                 *)
(***************************************************************************)
C6_NoUserStillSuccess ==
    \A p \in Procs :
        /\ frame[p].user = NULL =>
               /\ Done(p)
               /\ ~Issued(p, "update")
               /\ frame[p].update = UNDEF
               /\ frame[p].warned
               /\ PlainSuccess(p)
        /\ (Done(p) /\ Issued(p, "update") /\ frame[p].dbError = NULL) =>
               PlainSuccess(p)

C6_Witness ==
    \E p \in Procs :
        /\ TokenSucceeded(p)
        /\ ProfileSucceeded(p)
        /\ frame[p].user = NULL
        /\ frame[p].warned
        /\ PlainSuccess(p)

(***************************************************************************)
(* C7: every invocation, whatever the query, the answers and the table,    *)
(* reaches a terminal state, stays in it, and has a redirect exactly then; *)
(* an error thrown on the way is caught and logged, never passed on.       *)
(***************************************************************************)
C7_AlwaysAnswers ==
    /\ [](\A p \in Procs :
            /\ Done(p) <=> frame[p].redirect # UNDEF
            /\ frame[p].redirect # UNDEF => frame[p].redirect.t = "redirect"
            /\ frame[p].thrown # UNDEF =>
                   (Done(p) /\ frame[p].logged = frame[p].thrown))
    /\ [][\A p \in Procs : Done(p) => frame'[p] = frame[p]]_vars
    /\ \A p \in Procs : (frame[p].pc # "idle") ~> Done(p)

\* An invocation that ended through the catch block, after the update failed.
C7_Witness ==
    \E p \in Procs :
        /\ Done(p)
        /\ frame[p].thrown # UNDEF
        /\ Issued(p, "update")
        /\ frame[p].redirect.t = "redirect"

(***************************************************************************)
(* C8: a handler that got a success status and a body without access_token *)
(* from the token endpoint ends with error=exchange_failed, and has        *)
(* neither fetched the profile nor issued the update.                      *)
(***************************************************************************)
C8_MissingTokenFails ==
    \A p \in Procs :
        (/\ Done(p)
         /\ TokenSucceeded(p)
         /\ ~Populated(frame[p].tokenResponse.body.access_token)) =>
            /\ HasParam(p, "error", <<"exchange_failed">>)
            /\ ~Issued(p, "profile")
            /\ ~Issued(p, "update")

\* The userinfo endpoint has answered p with something that is no profile:
\* a body that is not JSON, the JSON null, or an object without sub.
ProfileMalformed(p) ==
    /\ frame[p].profileResponse # UNDEF
    /\ \/ frame[p].profileResponse.kind = "not_json"
       \/ /\ frame[p].profileResponse.kind = "json"
          /\ frame[p].profileResponse.body = NULL
       \/ /\ ProfileSucceeded(p)
          /\ ~Populated(frame[p].profileResponse.body.sub)

(***************************************************************************)
(* C9: a handler whose exchange gave a token and whose profile answer was   *)
(* malformed or had no sub ends with error=exchange_failed, and has issued *)
(* no update.                                                              *)
(***************************************************************************)
C9_ProfileFailureFails ==
    \A p \in Procs :
        (/\ Done(p)
         /\ TokenSucceeded(p)
         /\ Populated(frame[p].tokenResponse.body.access_token)
         /\ ProfileMalformed(p)) =>
            /\ HasParam(p, "error", <<"exchange_failed">>)
            /\ ~Issued(p, "update")

\* The characters that would end the msg parameter of the redirect.
Reserved == {" ", "&", "="}

(***************************************************************************)
(* C10: once the store has rejected the update, the handler is finished    *)
(* with error=exchange_failed and a msg that is the store's message,       *)
(* escaped for the URL; it does not answer success=true.                   *)
(***************************************************************************)
C10_RejectedUpdateFails ==
    \A p \in Procs :
        (frame[p].dbError # UNDEF /\ frame[p].dbError # NULL) =>
            /\ Done(p)
            /\ HasParam(p, "error", <<"exchange_failed">>)
            /\ "msg" \in DOMAIN frame[p].redirect.query
            /\ decodeURIComponent(frame[p].redirect.query.msg)
                   = frame[p].dbError.message
            /\ \A i \in 1..Len(frame[p].redirect.query.msg) :
                   frame[p].redirect.query.msg[i] \notin Reserved
            /\ "success" \notin DOMAIN frame[p].redirect.query

\* A rejected update whose message had to be escaped.
C10_Witness ==
    \E p \in Procs :
        /\ HappyCase(p)
        /\ frame[p].dbError # UNDEF
        /\ frame[p].dbError # NULL
        /\ \E i \in 1..Len(frame[p].dbError.message) :
               frame[p].dbError.message[i] = "&"
        /\ Done(p)
        /\ HasParam(p, "error", <<"exchange_failed">>)

\* p ended in the connected state, with a resolved user.
ConnectedWithUser(p) ==
    /\ Done(p)
    /\ PlainSuccess(p)
    /\ frame[p].user # UNDEF
    /\ frame[p].user # NULL

C12_SameRedirectUri ==
    \A p \in Procs :
        frame[p].tokenRequest # UNDEF =>
            \A userId \in UserIds, r \in Randoms :
                LET url == generateLinkedInAuthUrl(userId, r) IN
                url # InvalidCharacterError =>
                    frame[p].tokenRequest.redirect_uri = url.redirect_uri

\* A user id the builder is meant for: a text that is not empty and that
\* btoa can encode.
ValidUserId(u) == u # <<>> /\ \A i \in 1..Len(u) : u[i] <= 255

(***************************************************************************)
(* C13: the state of every URL built for a valid user id decodes to an     *)
(* object with that user id and with a nonce that is not empty.            *)
(***************************************************************************)
C13_StateRoundTrip ==
    \A i \in 1..Len(authUrls) :
        ValidUserId(authUrls[i].userId) =>
            /\ authUrls[i].url # InvalidCharacterError
            /\ DecodeState(authUrls[i].url.state).userId = authUrls[i].userId
            /\ DecodeState(authUrls[i].url.state).nonce # <<>>

(***************************************************************************)
(* C14: two URLs built for the same user id have different states.         *)
(***************************************************************************)
C14_DistinctStates ==
    \A i, j \in 1..Len(authUrls) :
        (/\ i # j
         /\ authUrls[i].userId = authUrls[j].userId
         /\ authUrls[i].url # InvalidCharacterError)
        => authUrls[i].url.state # authUrls[j].url.state

\* p has written a record: its update found the row of its user and was
\* accepted.
WroteRecord(p) ==
    /\ Done(p)
    /\ frame[p].update # UNDEF
    /\ frame[p].dbError = NULL
    /\ frame[p].update.user_id \in DOMAIN store

\* The expiry of the record p has written, as a time.
WrittenExpiry(p) ==
    ParseISO(store[frame[p].update.user_id].linkedin_token_expires_at)

(***************************************************************************)
(* C15 as stated: every record written has token_expires_at equal to the   *)
(* time at which the answer of the token endpoint was received plus        *)
(* expires_in, the clock being free to advance between the steps.          *)
(***************************************************************************)
C15_AsStated ==
    \A p \in Procs :
        WroteRecord(p) =>
            WrittenExpiry(p) = frame[p].tokenReceivedAt.n + frame[p].expiresIn.n

\* What an invocation has done and answered, apart from the state parameter
\* it came with.
Observable(p) == [frame[p] EXCEPT !.state = NULL]

ExchangeSucceeded(p) ==
    /\ TokenSucceeded(p)
    /\ Populated(frame[p].tokenResponse.body.access_token)

(***************************************************************************)
(* C17: the profile fetch is issued only after the token exchange          *)
(* succeeded, the resolution of the user only after the profile fetch      *)
(* returned, the update only after a user was resolved, and no record is   *)
(* written without a successful exchange.                                  *)
(***************************************************************************)
C17_StrictOrder ==
    \A p \in Procs :
        /\ Issued(p, "profile") => ExchangeSucceeded(p)
        /\ Issued(p, "getUser") => ProfileSucceeded(p)
        /\ Issued(p, "update") => frame[p].user \notin {UNDEF, NULL}
        /\ WroteRecord(p) => ExchangeSucceeded(p)

\* The number of times p has issued the call c.
Times(p, c) == Cardinality({i \in 1..Len(frame[p].calls) : frame[p].calls[i] = c})

(***************************************************************************)
(* C18: an invocation calls the token endpoint, the userinfo endpoint,     *)
(* getUser and the update of the table at most once each, whatever the     *)
(* answers.                                                                *)
(***************************************************************************)
C18_NoRetry ==
    \A p \in Procs :
        \A c \in {"token", "profile", "getUser", "update"} : Times(p, c) <= 1

\* The update was rejected and the handler has ended: four calls, each made
\* once, and the failure redirect.
C18_Witness ==
    /\ Done("p1")
    /\ Truthy(frame["p1"].dbError)
    /\ frame["p1"].calls = <<"token", "profile", "getUser", "update">>
    /\ HasParam("p1", "error", <<"exchange_failed">>)

\* p has ended in a failure: its redirect carries an error.
Failed(p) ==
    /\ Done(p)
    /\ "error" \in DOMAIN frame[p].redirect.query

\* This step is the accepted update of p, the last step of an invocation
\* that ends in success.
AcceptedUpdate(p) ==
    /\ frame[p].pc = "awaitUpdate"
    /\ frame'[p].pc = "done"
    /\ frame'[p].dbError = NULL
    /\ DOMAIN frame'[p].redirect.query = {"success"}

(***************************************************************************)
(* C20: a step that changes the table is the accepted update of one        *)
(* invocation, it changes the row of the user that invocation resolved and *)
(* no other row, and it creates and deletes none; an invocation that has   *)
(* ended in a failure has left the whole table as it found it.             *)
(***************************************************************************)
C20_OnlyTheSessionUsersRow ==
    /\ [][store' # store =>
            /\ DOMAIN store' = DOMAIN store
            /\ \E p \in Procs :
                   /\ AcceptedUpdate(p)
                   /\ frame[p].update.user_id = frame[p].user.id
                   /\ \A u \in DOMAIN store :
                          u # frame[p].user.id => store'[u] = store[u]]_vars
    /\ [](Failed("p1") => store \in InitialStores)

\* A re-connection of u1 has failed at the exchange, and the row of u1 is
\* the connected row it was.
C20_Witness ==
    /\ Failed("p1")
    /\ HasParam("p1", "error", <<"exchange_failed">>)
    /\ Issued("p1", "token")
    /\ "u1" \in DOMAIN store
    /\ store["u1"] = ConnectedRow

\* The row of u holds, in every column, the value p sent.
RowWrittenBy(u, p) ==
    LET values == frame[p].update.values IN
    /\ store[u].linkedin_token = values.linkedin_token
    /\ store[u].linkedin_profile_id = values.linkedin_profile_id
    /\ store[u].linkedin_connected = values.linkedin_connected
    /\ store[u].linkedin_token_expires_at = values.linkedin_token_expires_at

(***************************************************************************)
(* C19: when two concurrent invocations have both written the row of the   *)
(* same user, the row is the complete field set (token, profile id,        *)
(* connected, expiry) that one of them sent, never a mix of the two.       *)
(***************************************************************************)
C19_FinalRowIsOneWritersRecord ==
    \A u \in DOMAIN store :
        (\A p \in Procs : WroteRecord(p) /\ frame[p].update.user_id = u)
            => \E q \in Procs : RowWrittenBy(u, q)

====
